---- MODULE Spec2Model ----
(***************************************************************************)
(* A model of the IDF 3.0 checker (src/emnObj.py): the emnObj constructor  *)
(* (getParts, getShapes, getUnits, getDrills and the shape / part / drill  *)
(* constructors) and the error checking suite run by checkAllErrors.       *)
(*                                                                         *)
(* Representation.                                                         *)
(*   - a line of the .emn file is the sequence of its whitespace separated *)
(*     fields (what line.split() returns); a field is a string.  The       *)
(*     markers contain no whitespace, so `keyword in line` holds exactly   *)
(*     when the keyword is a substring of one field.                       *)
(*   - a float is an integer count of 1/Scale units (Scale = 10000), so    *)
(*     0.026 is 260 and 360 is 3600000; float() is ParseFloat below.       *)
(*   - an angle of the arc check is an integer count of 1/1000 degree.     *)
(*   - an error message is a record of the message kind and of the values  *)
(*     formatted into it; %.2f values are counts of 1/100.  The fields     *)
(*     shape, sub and vtx are history fields (the index of the shape, of   *)
(*     its sub-shape and of the vertex of the sub-shape the message was    *)
(*     emitted for, from 1); they are no part of the text.                 *)
(***************************************************************************)
EXTENDS Integers, Sequences, FiniteSets, TLC

VARIABLES
    emnData,       \* emnObj._emnData: the lines of the file
    partsLibrary,  \* the argument of checkAllErrors: a set of part names
    fileName,      \* emnObj.fileName
    parts,         \* emnObj.parts
    shapes,        \* emnObj.shapes
    errors,        \* emnObj.errors
    units,         \* emnObj.units
    drills,        \* emnObj.drills
    pc,            \* where the program is: "new", a check of checkAllErrors,
                   \* "done", "parse_error" (the constructor raised) or
                   \* "raised" (a check raised)
    raisedBy       \* the check that raised, "" while none has

vars == <<emnData, partsLibrary, fileName, parts, shapes, errors, units, drills,
          pc, raisedBy>>

----------------------------------------------------------------------------
(* The markers of the IDF 3.0 standard, as the source spells them.         *)

BOARD_START         == ".BOARD_OUTLINE"
BOARD_END           == ".END_BOARD_OUTLINE"
DRILL_START         == ".DRILLED_HOLES"
DRILL_END           == ".END_DRILLED_HOLES"
HEADER_START        == ".HEADER"
HEADER_END          == ".END_HEADER"
OTHER_START         == ".OTHER_OUTLINE"
OTHER_END           == ".END_OTHER_OUTLINE"
PLACE_KEEPOUT_START == ".PLACE_KEEPOUT"
PLACE_KEEPOUT_END   == ".END_PLACE_KEEPOUT"
PLACE_OUTLINE_START == ".PLACE_OUTLINE"
PLACE_OUTLINE_END   == ".END_PLACE_OUTLINE"
PLACEMENT_START     == ".PLACEMENT"
PLACEMENT_END       == ".END_PLACEMENT"
ROUTE_START         == ".ROUTE_OUTLINE"
ROUTE_END           == ".END_ROUTE_OUTLINE"
ROUTE_KEEPOUT_START == ".ROUTE_KEEOUT"
ROUTE_KEEPOUT_END   == ".END_ROUTE_KEEPOUT"
VIA_KEEPOUT_START   == ".VIA_KEEPOUT"
VIA_KEEPOUT_END     == ".END_VIA_KEEPOUT"

SHAPE_STARTS ==
    << BOARD_START, OTHER_START, PLACE_KEEPOUT_START, PLACE_OUTLINE_START,
       ROUTE_START, ROUTE_KEEPOUT_START, VIA_KEEPOUT_START >>

SHAPE_ENDS ==
    << BOARD_END, OTHER_END, PLACE_KEEPOUT_END, PLACE_OUTLINE_END,
       ROUTE_END, ROUTE_KEEPOUT_END, VIA_KEEPOUT_END >>

----------------------------------------------------------------------------
(* Strings.                                                                *)

\* Python's `k in s` for two strings
Contains(k, s) ==
    \E i \in 1..(Len(s) - Len(k) + 1) : SubSeq(s, i, i + Len(k) - 1) = k

\* Python's `keyword in line`, the keyword having no whitespace in it
InLine(keyword, line) ==
    \E j \in 1..Len(line) : Contains(keyword, line[j])

RECURSIVE JoinFrom(_, _)
JoinFrom(line, j) ==
    IF j > Len(line) THEN ""
    ELSE IF j = Len(line) THEN line[j]
    ELSE line[j] \o " " \o JoinFrom(line, j + 1)

\* the text of a line, its fields separated by one blank
JoinLine(line) == JoinFrom(line, 1)

\* the positions of c in s
Positions(c, s) == { i \in 1..Len(s) : SubSeq(s, i, i) = c }

Min(S) == CHOOSE m \in S : \A n \in S : m <= n
Max(S) == CHOOSE m \in S : \A n \in S : m >= n

\* str.strip()
Strip(s) ==
    LET keep == { i \in 1..Len(s) : SubSeq(s, i, i) # " " }
    IN  IF keep = {} THEN "" ELSE SubSeq(s, Min(keep), Max(keep))

LowerCase == <<"a","b","c","d","e","f","g","h","i","j","k","l","m",
               "n","o","p","q","r","s","t","u","v","w","x","y","z">>
UpperCase == <<"A","B","C","D","E","F","G","H","I","J","K","L","M",
               "N","O","P","Q","R","S","T","U","V","W","X","Y","Z">>

UpperChar(c) ==
    IF \E i \in 1..26 : LowerCase[i] = c
    THEN UpperCase[CHOOSE i \in 1..26 : LowerCase[i] = c]
    ELSE c

RECURSIVE UpperFrom(_, _)
UpperFrom(s, i) ==
    IF i > Len(s) THEN "" ELSE UpperChar(SubSeq(s, i, i)) \o UpperFrom(s, i + 1)

\* str.upper()
Upper(s) == UpperFrom(s, 1)

----------------------------------------------------------------------------
(* Numbers.                                                                *)

\* the number of model units in 1.0
Scale == 10000

\* the value of each decimal digit
DigitMap ==
    ("0" :> 0) @@ ("1" :> 1) @@ ("2" :> 2) @@ ("3" :> 3) @@ ("4" :> 4) @@
    ("5" :> 5) @@ ("6" :> 6) @@ ("7" :> 7) @@ ("8" :> 8) @@ ("9" :> 9)

IsDigit(c) == c \in DOMAIN DigitMap
DigitVal(c) == DigitMap[c]

AllDigits(s) == \A i \in 1..Len(s) : IsDigit(SubSeq(s, i, i))

RECURSIVE IntVal(_, _, _)
IntVal(s, i, acc) ==
    IF i > Len(s) THEN acc
    ELSE IntVal(s, i + 1, 10 * acc + DigitVal(SubSeq(s, i, i)))

\* the first four decimals of the fraction digits f, in model units
FracVal(f) ==
    LET d(i) == IF i <= Len(f) THEN DigitVal(SubSeq(f, i, i)) ELSE 0
    IN  1000 * d(1) + 100 * d(2) + 10 * d(3) + d(4)

Unsigned(s) == IF Len(s) > 0 /\ SubSeq(s, 1, 1) \in {"-", "+"}
               THEN SubSeq(s, 2, Len(s)) ELSE s

\* float(s) succeeds; the model reads the decimal literals [sign]ddd[.ddd]
IsFloat(s) ==
    LET u    == Unsigned(s)
        dots == Positions(".", u)
    IN  /\ Len(u) > 0
        /\ Cardinality(dots) <= 1
        /\ \/ /\ dots = {}
              /\ AllDigits(u)
           \/ /\ dots # {}
              /\ Len(u) > 1
              /\ AllDigits(SubSeq(u, 1, Min(dots) - 1))
              /\ AllDigits(SubSeq(u, Min(dots) + 1, Len(u)))

\* float(s), in model units
ParseFloat(s) ==
    LET u    == Unsigned(s)
        dots == Positions(".", u)
        ip   == IF dots = {} THEN u ELSE SubSeq(u, 1, Min(dots) - 1)
        fp   == IF dots = {} THEN "" ELSE SubSeq(u, Min(dots) + 1, Len(u))
        mag  == IntVal(ip, 1, 0) * Scale + FracVal(fp)
    IN  IF SubSeq(s, 1, 1) = "-" THEN 0 - mag ELSE mag

\* "%.2f" % v: v rounded to a count of 1/100 (a tie goes to the even count)
Fmt2(v) ==
    LET a == IF v < 0 THEN 0 - v ELSE v
        q == a \div 100
        r == a % 100
        m == IF r > 50 \/ (r = 50 /\ q % 2 = 1) THEN q + 1 ELSE q
    IN  IF v < 0 THEN 0 - m ELSE m

----------------------------------------------------------------------------
(* class part                                                              *)

\* part.getCoords and part.side raise no IndexError or ValueError
PartCoordsOk(pData) ==
    /\ Len(pData[2]) >= 5
    /\ IsFloat(pData[2][1]) /\ IsFloat(pData[2][2]) /\ IsFloat(pData[2][4])

\* part.getNames raises no IndexError
PartNamesOk(pData) == InLine("\"", pData[1]) \/ Len(pData[1]) >= 1

\* part.getNames
getNames(pData) ==
    LET text == JoinLine(pData[1])
        qs   == Positions("\"", text)
    IN  IF qs # {}
        THEN LET q1    == Min(qs)
                 later == { q \in qs : q > q1 }
                 q2    == IF later = {} THEN Len(text) + 1 ELSE Min(later)
             IN  << SubSeq(text, q1 + 1, q2 - 1),
                    Strip(SubSeq(text, Max(qs) + 1, Len(text))) >>
        ELSE << pData[1][1], pData[1][Len(pData[1])] >>

\* part.__init__ returns
PartOk(pData) == PartCoordsOk(pData) /\ PartNamesOk(pData)

\* part.__init__
part(pData) ==
    [ name        |-> getNames(pData)[1],
      refDes      |-> getNames(pData)[2],
      coordinates |-> << ParseFloat(pData[2][1]), ParseFloat(pData[2][2]),
                         ParseFloat(pData[2][4]) >>,
      side        |-> pData[2][5] ]

(* class drill                                                             *)

DrillOk(dData) ==
    /\ Len(dData) >= 3
    /\ IsFloat(dData[1]) /\ IsFloat(dData[2]) /\ IsFloat(dData[3])

drill(dData) ==
    [ coordinates |-> << ParseFloat(dData[2]), ParseFloat(dData[3]) >>,
      diameter    |-> ParseFloat(dData[1]) ]

----------------------------------------------------------------------------
(* class shape                                                             *)

\* the lines of sData that split into exactly 4 fields
RECURSIVE CoordLines(_, _)
CoordLines(sData, i) ==
    IF i > Len(sData) THEN <<>>
    ELSE (IF Len(sData[i]) = 4 THEN <<sData[i]>> ELSE <<>>)
         \o CoordLines(sData, i + 1)

\* the second loop of shape.getCoords: the coordinates, one list for each
\* run of equal loop index, cutoutIndex starting at 0
RECURSIVE GroupCoords(_, _, _, _, _)
GroupCoords(shapeStrs, i, subshapeList, currentSubshape, cutoutIndex) ==
    IF i > Len(shapeStrs) THEN Append(subshapeList, currentSubshape)
    ELSE LET line  == shapeStrs[i]
             coord == << ParseFloat(line[1]), ParseFloat(line[2]),
                         ParseFloat(line[3]), ParseFloat(line[4]) >>
         IN  IF cutoutIndex = coord[1]
             THEN GroupCoords(shapeStrs, i + 1, subshapeList,
                              Append(currentSubshape, coord), cutoutIndex)
             ELSE GroupCoords(shapeStrs, i + 1,
                              Append(subshapeList, currentSubshape),
                              <<coord>>, coord[1])

\* shape.getCoords
getCoords(sData) == GroupCoords(CoordLines(sData, 1), 1, <<>>, <<>>, 0)

\* shape.getCoords raises no ValueError
CoordsOk(sData) ==
    \A i \in 1..Len(sData) :
        Len(sData[i]) = 4 => \A f \in 1..4 : IsFloat(sData[i][f])

\* shape.getHeight raises no IndexError or ValueError
HeightOk(sData, sType) ==
    IF sType = BOARD_START
    THEN Len(sData) >= 2 /\ Len(sData[2]) = 1 /\ IsFloat(sData[2][1])
    ELSE IF sType = OTHER_START \/ sType = PLACE_OUTLINE_START
    THEN Len(sData) >= 2 /\ Len(sData[2]) >= 2 /\ IsFloat(sData[2][2])
    ELSE TRUE

\* shape.getHeight
getHeight(sData, sType) ==
    IF sType = BOARD_START THEN ParseFloat(sData[2][1])
    ELSE IF sType = OTHER_START \/ sType = PLACE_OUTLINE_START
    THEN ParseFloat(sData[2][2])
    ELSE 0

\* shape.__init__ returns
ShapeOk(sData) ==
    /\ Len(sData) >= 1
    /\ Len(sData[1]) >= 1
    /\ CoordsOk(sData)
    /\ HeightOk(sData, sData[1][1])

\* shape.__init__
shape(sData) ==
    LET coordinates == getCoords(sData)
    IN  [ sType       |-> sData[1][1],
          coordinates |-> coordinates,
          outline     |-> coordinates[1],
          cutouts     |-> Tail(coordinates),
          height      |-> getHeight(sData, sData[1][1]) ]

\* shape.__str__ raises no IndexError
StrOk(s) == Len(s.outline) >= 1

\* the values shape.__str__ formats
ShapeStr(s) == << s.sType, Fmt2(s.outline[1][2]), Fmt2(s.outline[1][3]) >>

----------------------------------------------------------------------------
(* The scanners of emnObj.  Each returns [ok, val]: ok is FALSE when a     *)
(* constructor it calls raises.                                            *)

\* emnObj.getParts, from line i on; partLines[0] is line l0 of the data
RECURSIVE PartsScan(_, _, _, _, _, _)
PartsScan(data, i, partList, partsRange, firstLine, l0) ==
    IF i > Len(data) THEN [ok |-> TRUE, val |-> partList]
    ELSE LET range == partsRange /\ ~InLine(PLACEMENT_END, data[i])
             next  == range \/ InLine(PLACEMENT_START, data[i])
         IN  IF ~range
             THEN PartsScan(data, i + 1, partList, next, firstLine, l0)
             ELSE IF firstLine
             THEN PartsScan(data, i + 1, partList, next, FALSE, i)
             ELSE IF ~PartOk(<<data[l0], data[i]>>)
             THEN [ok |-> FALSE, val |-> partList]
             ELSE PartsScan(data, i + 1,
                            Append(partList, part(<<data[l0], data[i]>>)),
                            next, TRUE, l0)

getParts(data) == PartsScan(data, 1, <<>>, FALSE, TRUE, 0)

\* the keywords of a tuple that are in a line
Matches(keywords, line) ==
    { k \in 1..Len(keywords) : InLine(keywords[k], line) }

\* emnObj.getShapes, from line i on.  The lines appended to currentLines
\* since it was last emptied are consecutive lines of the data: first is
\* the index of the first of them (0 while coordRange is False)
RECURSIVE ShapesScan(_, _, _, _)
ShapesScan(data, i, shapeList, first) ==
    IF i > Len(data) THEN [ok |-> TRUE, val |-> shapeList]
    ELSE LET start == IF first = 0 /\ Matches(SHAPE_STARTS, data[i]) # {}
                      THEN i ELSE first
             currentLines == IF start = 0 THEN <<>> ELSE SubSeq(data, start, i)
             ends  == Cardinality(Matches(SHAPE_ENDS, data[i]))
         IN  IF ends = 0
             THEN ShapesScan(data, i + 1, shapeList, start)
             \* a second end keyword in the line builds shape([])
             ELSE IF ~ShapeOk(currentLines) \/ ends > 1
             THEN [ok |-> FALSE, val |-> shapeList]
             ELSE ShapesScan(data, i + 1,
                             Append(shapeList, shape(currentLines)), 0)

\* a getShapes that would also build a shape from the lines left in
\* currentLines at the end of the data; C4 tells it from getShapes
getShapesFlushing(data) ==
    LET r      == ShapesScan(data, 1, <<>>, 0)
        ends   == { i \in 1..Len(data) : Matches(SHAPE_ENDS, data[i]) # {} }
        last   == IF ends = {} THEN 0 ELSE Max(ends)
        starts == { i \in (last + 1)..Len(data) :
                      Matches(SHAPE_STARTS, data[i]) # {} }
        rest   == SubSeq(data, Min(starts), Len(data))
    IN  IF r.ok /\ starts # {} /\ ShapeOk(rest)
        THEN [ok |-> TRUE, val |-> Append(r.val, shape(rest))]
        ELSE r

getShapes(data) == ShapesScan(data, 1, <<>>, 0)

\* emnObj.getUnits, from line i on: the units and whether the message
\* "Could not find units in file" is appended
RECURSIVE UnitsScan(_, _)
UnitsScan(data, i) ==
    IF i > Len(data)
    THEN [units |-> IF Len(data) = 0 THEN "" ELSE "ERROR", missing |-> FALSE]
    ELSE IF InLine("THOU", data[i]) THEN [units |-> "THOU", missing |-> FALSE]
    ELSE IF InLine("MM", data[i]) THEN [units |-> "MM", missing |-> FALSE]
    ELSE IF InLine(HEADER_END, data[i])
    THEN [units |-> "ERROR", missing |-> TRUE]
    ELSE UnitsScan(data, i + 1)

\* a getUnits that would append no message; C6 tells it from getUnits
getUnitsSilent(data) ==
    [units |-> UnitsScan(data, 1).units, missing |-> FALSE]

getUnits(data) == UnitsScan(data, 1)

\* emnObj.getDrills, from line i on
RECURSIVE DrillsScan(_, _, _, _)
DrillsScan(data, i, drillList, drillRange) ==
    IF i > Len(data) THEN [ok |-> TRUE, val |-> drillList]
    ELSE LET line  == data[i]
             range == drillRange /\ ~InLine(DRILL_END, line)
             next  == range \/ InLine(DRILL_START, line)
         IN  IF ~range THEN DrillsScan(data, i + 1, drillList, next)
             ELSE IF ~DrillOk(line) THEN [ok |-> FALSE, val |-> drillList]
             ELSE DrillsScan(data, i + 1, Append(drillList, drill(line)), next)

getDrills(data) == DrillsScan(data, 1, <<>>, FALSE)

----------------------------------------------------------------------------
(* Error messages.                                                         *)

Diag(msg, s1, s2, x, y, cx, cy, si, ci) ==
    [ msg |-> msg, s1 |-> s1, s2 |-> s2, x |-> x, y |-> y,
      cx |-> cx, cy |-> cy, shape |-> si, sub |-> ci, vtx |-> 0 ]

\* "Could not find units in file"
NoUnitsMsg == Diag("noUnits", "", "", 0, 0, 0, 0, 0, 0)

\* shape.__str__() + " is too short to be checked in Board Modeler Lite."
TooShortMsg(s, si) ==
    Diag("tooShort", ShapeStr(s)[1], "", ShapeStr(s)[2], ShapeStr(s)[3], 0, 0, si, 0)

\* "Recommend using .PLACE_KEEPOUT instead of zero-height placement areas."
UseKeepoutMsg == Diag("useKeepout", "", "", 0, 0, 0, 0, 0, 0)

\* shape.__str__() + " has coordinates in negative X,Y space."
NegShapeMsg(s, si) ==
    Diag("negShape", ShapeStr(s)[1], "", ShapeStr(s)[2], ShapeStr(s)[3], 0, 0, si, 0)

\* "Part " + part.__str__() + " is in negative X,Y space."
NegPartMsg(p) ==
    Diag("negPart", p.name, p.refDes, Fmt2(p.coordinates[1]),
         Fmt2(p.coordinates[2]), 0, 0, 0, 0)

\* drill.__str__() + " is in negative X,Y space."
NegDrillMsg(d) ==
    Diag("negDrill", "", "", Fmt2(d.coordinates[1]), Fmt2(d.coordinates[2]),
         Fmt2(d.diameter), 0, 0, 0)

\* shape.__str__() + " is not a closed shape."
NotClosedMsg(s, si, ci) ==
    Diag("notClosed", ShapeStr(s)[1], "", ShapeStr(s)[2], ShapeStr(s)[3], 0, 0, si, ci)

\* shape.__str__() + " has a cutout at [x,y] that is not a closed shape."
CutoutNotClosedMsg(s, sub, si, ci) ==
    Diag("cutoutNotClosed", ShapeStr(s)[1], "", ShapeStr(s)[2], ShapeStr(s)[3],
         Fmt2(sub[1][2]), Fmt2(sub[1][3]), si, ci)

\* part.__str__() + " has an 'R' reference designator."
RefDesMsg(p) ==
    Diag("refDesR", p.name, p.refDes, Fmt2(p.coordinates[1]),
         Fmt2(p.coordinates[2]), 0, 0, 0, 0)

\* shape.__str__() + " has a cutout at [x,y] that is circular."
CircularMsg(s, sub, si, ci) ==
    Diag("circular", ShapeStr(s)[1], "", ShapeStr(s)[2], ShapeStr(s)[3],
         Fmt2(sub[1][2]), Fmt2(sub[1][3]), si, ci)

\* "No shapes found. Is this IDF 3.0 data?"
NoShapesMsg == Diag("noShapes", "", "", 0, 0, 0, 0, 0, 0)

\* "Infinitesimal arc intersection found at [x,y]"
ArcMsg(v, si, ci, vi) ==
    [ Diag("arc", "", "", Fmt2(v[2]), Fmt2(v[3]), 0, 0, si, ci) EXCEPT !.vtx = vi ]

\* "name (refDes) has invalid characters in its part name."
InvalidCharsMsg(p) == Diag("invalidChars", p.name, p.refDes, 0, 0, 0, 0, 0, 0)

\* name + " not found in parts library"
NotInLibMsg(p) == Diag("notInLib", p.name, "", 0, 0, 0, 0, 0, 0)

\* "Part names with invalid characters were detected. Please check ..."
LibSummaryMsg == Diag("libSummary", "", "", 0, 0, 0, 0, 0, 0)

----------------------------------------------------------------------------
(* The checks.  Each takes the errors so far and returns [ok, errs]: the   *)
(* errors after it, and ok = FALSE when it raised (errs is then what it    *)
(* had appended before raising).                                           *)

\* the literals 0.026, 1 and 360 of the checks
MinHeightMM   == ParseFloat("0.026")
MinHeightTHOU == ParseFloat("1")
FullCircle    == ParseFloat("360")

\* the condition of checkHeightErrors on one shape
HeightError(s, u) ==
    \/ s.sType = PLACE_OUTLINE_START /\ u = "MM" /\ s.height <= MinHeightMM
    \/ s.sType = PLACE_OUTLINE_START /\ u = "THOU" /\ s.height <= MinHeightTHOU

RECURSIVE HeightLoop(_, _, _, _, _)
HeightLoop(shps, u, i, errs, heightFlag) ==
    IF i > Len(shps)
    THEN [ok |-> TRUE,
          errs |-> IF heightFlag THEN Append(errs, UseKeepoutMsg) ELSE errs]
    ELSE IF ~HeightError(shps[i], u)
    THEN HeightLoop(shps, u, i + 1, errs, heightFlag)
    ELSE IF ~StrOk(shps[i]) THEN [ok |-> FALSE, errs |-> errs]
    ELSE HeightLoop(shps, u, i + 1, Append(errs, TooShortMsg(shps[i], i)), TRUE)

checkHeightErrors(shps, u, errs) == HeightLoop(shps, u, 1, errs, FALSE)

\* negShape of checkNegErrors
NegShape(s) ==
    \E c \in 1..Len(s.coordinates) :
        \E k \in 1..Len(s.coordinates[c]) :
            s.coordinates[c][k][2] < 0 \/ s.coordinates[c][k][3] < 0

RECURSIVE NegShapesLoop(_, _, _)
NegShapesLoop(shps, i, errs) ==
    IF i > Len(shps) THEN [ok |-> TRUE, errs |-> errs]
    ELSE IF ~NegShape(shps[i]) THEN NegShapesLoop(shps, i + 1, errs)
    ELSE IF ~StrOk(shps[i]) THEN [ok |-> FALSE, errs |-> errs]
    ELSE NegShapesLoop(shps, i + 1, Append(errs, NegShapeMsg(shps[i], i)))

RECURSIVE NegPartsLoop(_, _, _)
NegPartsLoop(prts, i, errs) ==
    IF i > Len(prts) THEN errs
    ELSE NegPartsLoop(prts, i + 1,
            IF prts[i].coordinates[1] < 0 \/ prts[i].coordinates[2] < 0
            THEN Append(errs, NegPartMsg(prts[i])) ELSE errs)

RECURSIVE NegDrillsLoop(_, _, _)
NegDrillsLoop(drls, i, errs) ==
    IF i > Len(drls) THEN errs
    ELSE NegDrillsLoop(drls, i + 1,
            IF drls[i].coordinates[1] < 0 \/ drls[i].coordinates[2] < 0
            THEN Append(errs, NegDrillMsg(drls[i])) ELSE errs)

checkNegErrors(shps, prts, drls, errs) ==
    LET r == NegShapesLoop(shps, 1, errs)
    IN  IF ~r.ok THEN r
        ELSE [ok |-> TRUE,
              errs |-> NegDrillsLoop(drls, 1, NegPartsLoop(prts, 1, r.errs))]

\* s[0][:3] != s[-1][:3]
EndsDiffer(sub) == SubSeq(sub[1], 1, 3) # SubSeq(sub[Len(sub)], 1, 3)

\* the message checkClosedErrors appends for one sub-shape, if any
ClosedVerdict(sub) ==
    IF Len(sub) >= 3 /\ EndsDiffer(sub)
    THEN (IF sub[1][1] = 0 THEN "notClosed" ELSE "cutoutNotClosed")
    ELSE IF Len(sub) = 2 /\ sub[2][4] # FullCircle THEN "notClosed"
    ELSE "none"

\* the inner loop of checkClosedErrors: toCheck is the outline, then the cutouts
RECURSIVE ClosedSubLoop(_, _, _, _)
ClosedSubLoop(s, si, j, errs) ==
    IF j > Len(s.coordinates) THEN [ok |-> TRUE, errs |-> errs]
    ELSE LET sub == s.coordinates[j]
             v   == ClosedVerdict(sub)
         IN  IF v = "none" THEN ClosedSubLoop(s, si, j + 1, errs)
             ELSE IF ~StrOk(s) THEN [ok |-> FALSE, errs |-> errs]
             ELSE ClosedSubLoop(s, si, j + 1,
                    Append(errs, IF v = "notClosed" THEN NotClosedMsg(s, si, j)
                                 ELSE CutoutNotClosedMsg(s, sub, si, j)))

RECURSIVE ClosedLoop(_, _, _)
ClosedLoop(shps, i, errs) ==
    IF i > Len(shps) THEN [ok |-> TRUE, errs |-> errs]
    ELSE LET r == ClosedSubLoop(shps[i], i, 1, errs)
         IN  IF ~r.ok THEN r ELSE ClosedLoop(shps, i + 1, r.errs)

checkClosedErrors(shps, errs) == ClosedLoop(shps, 1, errs)

RECURSIVE RefDesLoop(_, _, _)
RefDesLoop(prts, i, errs) ==
    IF i > Len(prts) THEN [ok |-> TRUE, errs |-> errs]
    \* part.refDes[0] of an empty string raises IndexError
    ELSE IF Len(prts[i].refDes) = 0 THEN [ok |-> FALSE, errs |-> errs]
    ELSE RefDesLoop(prts, i + 1,
            IF SubSeq(prts[i].refDes, 1, 1) = "R"
            THEN Append(errs, RefDesMsg(prts[i])) ELSE errs)

checkRefDesErrors(prts, errs) == RefDesLoop(prts, 1, errs)

\* toCheck when the first loop of checkRoundCutout ends: the index of the
\* shape whose cutouts it holds (0: none)
RoundCutoutShapes(shps) == IF Len(shps) = 0 THEN {} ELSE {Len(shps)}

\* the second loop of checkRoundCutout, over the cutouts of shape si
RECURSIVE RoundLoop(_, _, _, _)
RoundLoop(shps, si, j, errs) ==
    IF si = 0 \/ j > Len(shps[si].cutouts) THEN [ok |-> TRUE, errs |-> errs]
    ELSE LET sub == shps[si].cutouts[j]
         IN  IF ~(Len(sub) = 2 /\ sub[2][4] = FullCircle)
             THEN RoundLoop(shps, si, j + 1, errs)
             \* currentShape is the last shape of the first loop
             ELSE IF ~StrOk(shps[Len(shps)]) THEN [ok |-> FALSE, errs |-> errs]
             ELSE RoundLoop(shps, si, j + 1,
                    Append(errs, CircularMsg(shps[Len(shps)], sub, si, j + 1)))

checkRoundCutout(shps, errs) ==
    IF RoundCutoutShapes(shps) = {} THEN [ok |-> TRUE, errs |-> errs]
    ELSE RoundLoop(shps, CHOOSE si \in RoundCutoutShapes(shps) : TRUE, 1, errs)

checkEmpty(shps, errs) ==
    [ok |-> TRUE, errs |-> IF Len(shps) = 0 THEN Append(errs, NoShapesMsg) ELSE errs]

----------------------------------------------------------------------------
(* checkArcAngle.  Angles are counts of 1/1000 degree.                     *)

Abs(a) == IF a < 0 THEN 0 - a ELSE a

RECURSIVE Gcd(_, _)
Gcd(a, b) == IF b = 0 THEN a ELSE Gcd(b, a % b)

\* math.tau
Tau == 360000

\* atan(a/b) for coprime a, b in 1..4, rounded to 1/1000 degree
AtanTable ==
    << <<45000, 26565, 18435, 14036>>,
       <<63435, 45000, 33690, 26565>>,
       <<71565, 56310, 45000, 36870>>,
       <<75964, 63435, 53130, 45000>> >>

\* math.atan2(dy, dx), in (-180000, 180000]
Atan2(dy, dx) ==
    IF dy = 0 THEN (IF dx < 0 THEN 180000 ELSE 0)
    ELSE IF dx = 0 THEN (IF dy > 0 THEN 90000 ELSE 0 - 90000)
    ELSE LET g    == Gcd(Abs(dy), Abs(dx))
             base == AtanTable[Abs(dy) \div g][Abs(dx) \div g]
         IN  IF dx > 0 THEN (IF dy > 0 THEN base ELSE 0 - base)
             ELSE (IF dy > 0 THEN 180000 - base ELSE base - 180000)

\* math.radians of a sweep angle read by float()
Radians(phi) == phi \div (Scale \div 1000)

\* the absolute tolerance 0.01 (radian) of the two math.isclose calls
AbsTol == 572

\* math.isclose(a, b, rel_tol=0.01, abs_tol=0.01)
IsClose(a, b) ==
    LET big == IF Abs(a) > Abs(b) THEN Abs(a) ELSE Abs(b)
        rel == big \div 100
    IN  Abs(a - b) <= (IF rel > AbsTol THEN rel ELSE AbsTol)

\* s[k] of Python for -len(s) <= k < len(s)
PyAt(s, k) == s[(k % Len(s)) + 1]

\* a delta whose outgoing tangent turns the wrong way; C8 tells it from
\* ArcDelta
ArcDeltaSameTurn(s, i) ==
    LET phi0   == Radians(PyAt(s, i - 1)[4])
        phi1   == Radians(PyAt(s, i)[4])
        alpha0 == (Atan2(PyAt(s, i - 2)[3] - PyAt(s, i - 1)[3],
                         PyAt(s, i - 2)[2] - PyAt(s, i - 1)[2]) + Tau) % Tau
        alpha1 == (Atan2(PyAt(s, i)[3] - PyAt(s, i - 1)[3],
                         PyAt(s, i)[2] - PyAt(s, i - 1)[2]) + Tau) % Tau
        beta0  == alpha0 + (phi0 \div 2)
        beta1  == alpha1 + (phi1 \div 2)
    IN  Abs(beta1 - beta0) % Tau

\* delta of checkArcAngle at index i of s
ArcDelta(s, i) ==
    LET phi0   == Radians(PyAt(s, i - 1)[4])
        phi1   == Radians(PyAt(s, i)[4])
        alpha0 == (Atan2(PyAt(s, i - 2)[3] - PyAt(s, i - 1)[3],
                         PyAt(s, i - 2)[2] - PyAt(s, i - 1)[2]) + Tau) % Tau
        alpha1 == (Atan2(PyAt(s, i)[3] - PyAt(s, i - 1)[3],
                         PyAt(s, i)[2] - PyAt(s, i - 1)[2]) + Tau) % Tau
        beta0  == alpha0 + (phi0 \div 2)
        beta1  == alpha1 - (phi1 \div 2)
    IN  Abs(beta1 - beta0) % Tau

\* checkArcAngle appends a message at index i of s
ArcFlagged(s, i) ==
    /\ PyAt(s, i - 1)[4] # 0 \/ PyAt(s, i)[4] # 0
    /\ IsClose(ArcDelta(s, i), 0) \/ IsClose(ArcDelta(s, i), Tau)

\* a report of the coordinates of the vertex at index i itself; C13 tells it
\* from ArcReported
ArcReportedAtIndex(s, i) == i % Len(s)

\* the index in s, from 0, of the vertex whose coordinates the message at
\* index i reports
ArcReported(s, i) == (i - 1) % Len(s)

\* the loop over range(len(s)), s being the sub-shape without its first vertex
RECURSIVE ArcVertexLoop(_, _, _, _, _)
ArcVertexLoop(s, i, si, ci, errs) ==
    IF i >= Len(s) THEN errs
    ELSE ArcVertexLoop(s, i + 1, si, ci,
            IF ArcFlagged(s, i)
            THEN Append(errs, ArcMsg(PyAt(s, ArcReported(s, i)), si, ci,
                                     ArcReported(s, i) + 2))
            ELSE errs)

RECURSIVE ArcSubLoop(_, _, _, _)
ArcSubLoop(shp, si, j, errs) ==
    IF j > Len(shp.coordinates) THEN errs
    ELSE LET s == Tail(shp.coordinates[j])
         IN  ArcSubLoop(shp, si, j + 1,
                IF Len(shp.coordinates[j]) > 0 /\ Len(s) > 2
                THEN ArcVertexLoop(s, 0, si, j, errs) ELSE errs)

RECURSIVE ArcLoop(_, _, _)
ArcLoop(shps, i, errs) ==
    IF i > Len(shps) THEN errs
    ELSE ArcLoop(shps, i + 1, ArcSubLoop(shps[i], i, 1, errs))

checkArcAngle(shps, errs) == [ok |-> TRUE, errs |-> ArcLoop(shps, 1, errs)]

----------------------------------------------------------------------------
(* checkLibErrors                                                          *)

InvalidChars(name) ==
    Contains("_", name) \/ Contains("^", name) \/ Contains("_cc", name)

RECURSIVE LibLoop(_, _, _, _, _)
LibLoop(prts, lib, i, errs, circFlag) ==
    IF i > Len(prts)
    THEN IF circFlag THEN Append(errs, LibSummaryMsg) ELSE errs
    ELSE IF InvalidChars(prts[i].name)
    THEN LibLoop(prts, lib, i + 1, Append(errs, InvalidCharsMsg(prts[i])), TRUE)
    ELSE IF Upper(prts[i].name) \notin lib
    THEN LibLoop(prts, lib, i + 1, Append(errs, NotInLibMsg(prts[i])), circFlag)
    ELSE LibLoop(prts, lib, i + 1, errs, circFlag)

checkLibErrors(prts, lib, errs) ==
    [ok |-> TRUE, errs |-> LibLoop(prts, lib, 1, errs, FALSE)]

\* if(partsLibrary): an empty library is no library
LibrarySupplied(lib) == lib # {}

----------------------------------------------------------------------------
(* The program: emnObj.__init__, then checkAllErrors, one step for each    *)
(* check it calls.                                                         *)

\* the calls of checkAllErrors, in its order
\* an order with the closure check before the coordinate check; C1 tells it
\* from CheckSequence
CheckSequenceClosedFirst ==
    <<"height", "closed", "neg", "refdes", "round", "empty", "arc", "lib">>

CheckSequence ==
    <<"height", "neg", "closed", "refdes", "round", "empty", "arc", "lib">>

\* the position of the program after check c returned
After(c) ==
    LET k == CHOOSE i \in 1..Len(CheckSequence) : CheckSequence[i] = c
    IN  IF k < Len(CheckSequence) THEN CheckSequence[k + 1] ELSE "done"

\* emnObj.__init__: getParts, getShapes, errors = [], getUnits, getDrills
Construct ==
    /\ pc = "new"
    /\ LET p == getParts(emnData)
           s == getShapes(emnData)
           u == getUnits(emnData)
           d == getDrills(emnData)
       IN  IF p.ok /\ s.ok /\ d.ok
           THEN /\ parts'  = p.val
                /\ shapes' = s.val
                /\ errors' = IF u.missing THEN <<NoUnitsMsg>> ELSE <<>>
                /\ units'  = u.units
                /\ drills' = d.val
                /\ pc'     = CheckSequence[1]
           ELSE /\ pc' = "parse_error"
                /\ UNCHANGED <<parts, shapes, errors, units, drills>>
    /\ UNCHANGED <<emnData, partsLibrary, fileName, raisedBy>>

\* a check returned r: its errors are kept, and an exception ends the run
Step(c, r) ==
    /\ errors' = r.errs
    /\ pc' = IF r.ok THEN After(c) ELSE "raised"
    /\ raisedBy' = IF r.ok THEN raisedBy ELSE c
    /\ UNCHANGED <<emnData, partsLibrary, fileName, parts, shapes, units, drills>>

CheckHeightErrors ==
    pc = "height" /\ Step("height", checkHeightErrors(shapes, units, errors))

CheckNegErrors ==
    pc = "neg" /\ Step("neg", checkNegErrors(shapes, parts, drills, errors))

CheckClosedErrors ==
    pc = "closed" /\ Step("closed", checkClosedErrors(shapes, errors))

CheckRefDesErrors ==
    pc = "refdes" /\ Step("refdes", checkRefDesErrors(parts, errors))

CheckRoundCutout ==
    pc = "round" /\ Step("round", checkRoundCutout(shapes, errors))

CheckEmpty ==
    pc = "empty" /\ Step("empty", checkEmpty(shapes, errors))

CheckArcAngle ==
    pc = "arc" /\ Step("arc", checkArcAngle(shapes, errors))

\* if(partsLibrary): self.checkLibErrors(partsLibrary)
CheckLibErrors ==
    pc = "lib" /\ Step("lib", IF LibrarySupplied(partsLibrary)
                              THEN checkLibErrors(parts, partsLibrary, errors)
                              ELSE [ok |-> TRUE, errs |-> errors])

Next ==
    \/ Construct
    \/ CheckHeightErrors
    \/ CheckNegErrors
    \/ CheckClosedErrors
    \/ CheckRefDesErrors
    \/ CheckRoundCutout
    \/ CheckEmpty
    \/ CheckArcAngle
    \/ CheckLibErrors

----------------------------------------------------------------------------
(* The files the specifications start from.                                *)

\* the section markers as IDF 3.0 files spell them, by kind:
\* board outline, other outline, place keepout, place outline,
\* route outline, route keepout, via keepout
StdStarts ==
    << ".BOARD_OUTLINE", ".OTHER_OUTLINE", ".PLACE_KEEPOUT", ".PLACE_OUTLINE",
       ".ROUTE_OUTLINE", ".ROUTE_KEEPOUT", ".VIA_KEEPOUT" >>
StdEnds ==
    << ".END_BOARD_OUTLINE", ".END_OTHER_OUTLINE", ".END_PLACE_KEEPOUT",
       ".END_PLACE_OUTLINE", ".END_ROUTE_OUTLINE", ".END_ROUTE_KEEPOUT",
       ".END_VIA_KEEPOUT" >>

\* the lines between the start marker of a section of kind k and its
\* vertices: the thickness or height h, or the layers
SecondLines(k, h) ==
    CASE k = 1 -> << <<h>> >>
      [] k = 2 -> << <<"id", h, "TOP">> >>
      [] k \in {3, 4} -> << <<"TOP", h>> >>
      [] k \in {5, 6} -> << <<"ALL">> >>
      [] OTHER -> <<>>

\* a section of kind k, with or without its end marker
Section(k, h, verts, terminated) ==
    << <<StdStarts[k], "MCAD">> >> \o SecondLines(k, h) \o verts
        \o (IF terminated THEN << <<StdEnds[k]>> >> ELSE <<>>)

RECURSIVE Flatten(_)
Flatten(ss) == IF Len(ss) = 0 THEN <<>> ELSE Head(ss) \o Flatten(Tail(ss))

\* the sequences over S of length at most n
SeqsUpTo(S, n) == UNION { [1..k -> S] : k \in 0..n }

\* header sections: with units, with none, and without end marker
HeaderMM    == << <<".HEADER">>, <<"board", "MM">>, <<".END_HEADER">> >>
HeaderTHOU  == << <<".HEADER">>, <<"board", "THOU">>, <<".END_HEADER">> >>
HeaderNone  == << <<".HEADER">>, <<"board">>, <<".END_HEADER">> >>
HeaderNoEnd == << <<".HEADER">>, <<"board">> >>

\* vertex lists
Square     == << <<"0","0","0","0">>, <<"0","2","0","0">>, <<"0","2","2","0">>,
                 <<"0","0","2","0">>, <<"0","0","0","0">> >>
OpenLine   == << <<"0","0","0","0">>, <<"0","2","0","0">>, <<"0","2","2","0">> >>
NegSquare  == << <<"0","-1","0","0">>, <<"0","2","0","0">>, <<"0","2","2","0">>,
                 <<"0","-1","0","0">> >>
RoundHole  == << <<"1","1","1","0">>, <<"1","1.5","1","360">> >>
OpenHole   == << <<"1","1","1","0">>, <<"1","1.5","1","0">>, <<"1","1.5","1.5","0">> >>
HalfHole   == << <<"1","1","1","0">>, <<"1","1.5","1","180">> >>

\* placement sections
Placement(records) ==
    << <<".PLACEMENT">> >> \o records \o << <<".END_PLACEMENT">> >>

PartCap    == << <<"cap", "pn1", "C1">>, <<"1", "1", "0", "0", "TOP", "PLACED">> >>
PartNegR   == << <<"res_1", "pn2", "R14">>, <<"-1", "1", "0", "90", "TOP", "PLACED">> >>
PartCaret  == << <<"\"ic^2\"", "U1">>, <<"1", "0", "0", "0", "BOTTOM", "PLACED">> >>
PartNoRef  == << <<"\"cap\"">>, <<"1", "1", "0", "0", "TOP", "PLACED">> >>
PartOther  == << <<"coil", "pn3", "L1">>, <<"1.004", "1.006", "0", "0", "TOP", "PLACED">> >>

\* drilled holes sections
Drilled(records) ==
    << <<".DRILLED_HOLES">> >> \o records \o << <<".END_DRILLED_HOLES">> >>

DrillNeg == << <<"0.5", "1", "-1", "PTH", "BOARD", "VIA", "ECAD">> >>

\* the state before emnObj.__init__ runs on a file
Start(data, lib) ==
    /\ emnData = data
    /\ partsLibrary = lib
    /\ fileName = "board.emn"
    /\ parts = <<>>
    /\ shapes = <<>>
    /\ errors = <<>>
    /\ units = ""
    /\ drills = <<>>
    /\ pc = "new"
    /\ raisedBy = ""

(* Spec: whole files, a header, shape sections, a placement section and a  *)
(* drilled holes section, checked with and without a parts library.        *)

\* the most shape sections of a file of Spec
MaxShapes == 2

Headers == { HeaderMM, HeaderTHOU, HeaderNone, HeaderNoEnd }

Sections ==
    { Section(1, "1.6", Square, TRUE),
      Section(1, "1.6", OpenLine \o RoundHole, TRUE),
      Section(1, "1.6", OpenHole, TRUE),
      Section(4, "0", <<>>, TRUE),
      Section(4, "0.026", NegSquare \o OpenHole \o HalfHole, TRUE) }

\* a placement section, a drilled holes section and a parts library
Tails ==
    { << <<>>, {} >>,
      << Placement(<<>>), {"CAP"} >>,
      << Placement(PartCap) \o Drilled(DrillNeg), {"CAP"} >>,
      << Placement(PartNegR \o PartCap), {} >>,
      << Placement(PartNegR \o PartCap) \o Drilled(DrillNeg), {"CAP"} >>,
      << Placement(PartCaret \o PartOther), {"CAP", "COIL"} >>,
      << Placement(PartNoRef), {"CAP"} >> }

Files ==
    { << h \o Flatten(ss) \o t[1], t[2] >> :
        h \in Headers, ss \in SeqsUpTo(Sections, MaxShapes), t \in Tails }

Init == \E f \in Files : Start(f[1], f[2])

Spec == Init /\ [][Next]_vars

(* SpecScan: files of shape sections of the seven kinds, each with or      *)
(* without its end marker.                                                 *)

\* the most shape sections of a file of SpecScan
MaxSections == 2

Triangle == << <<"0","0","0","0">>, <<"0","2","0","0">>, <<"0","0","2","0">>,
               <<"0","0","0","0">> >>

ScanSections ==
    { Section(k, "1.6", Triangle, terminated) :
        k \in 1..Len(StdStarts), terminated \in BOOLEAN }

ScanFiles ==
    { HeaderMM \o Flatten(ss) : ss \in SeqsUpTo(ScanSections, MaxSections) }

InitScan == \E data \in ScanFiles : Start(data, {})

SpecScan == InitScan /\ [][Next]_vars

(* SpecArc: files of one board outline, its first vertex at the origin and *)
(* every other vertex one of four points, reached by a straight segment or *)
(* by an arc of 180 degrees.                                               *)

\* the most vertices of the outline of a file of SpecArc
MaxArcVerts == 4

ArcVertices ==
    { <<"0", pt[1], pt[2], a>> :
        pt \in { <<"0","0">>, <<"1","0">>, <<"2","0">>, <<"1","1">> },
        a \in { "0", "180" } }

ArcOutlines ==
    { << <<"0","0","0","0">> >> \o vs : vs \in SeqsUpTo(ArcVertices, MaxArcVerts - 1) }

ArcFiles == { HeaderMM \o Section(1, "1.6", vs, TRUE) : vs \in ArcOutlines }

InitArc == \E data \in ArcFiles : Start(data, {})

SpecArc == InitArc /\ [][Next]_vars

(* SpecParts: files of placement sections, each of a few record lines that *)
(* are name lines or position lines in any order.                          *)

\* the most placement sections of a file of SpecParts
MaxPlacements == 2

\* the most record lines of a placement section of SpecParts
MaxRecordLines == 3

PlacementLines == { PartCap[1], PartCap[2], PartOther[1] }

PartsFiles ==
    { HeaderMM \o Flatten(ss) :
        ss \in SeqsUpTo({ Placement(records) :
                            records \in SeqsUpTo(PlacementLines, MaxRecordLines) },
                        MaxPlacements) }

InitParts == \E data \in PartsFiles : Start(data, {"CAP"})

SpecParts == InitParts /\ [][Next]_vars

----------------------------------------------------------------------------
(* Where the program is.                                                   *)

Checks == { CheckSequence[i] : i \in 1..Len(CheckSequence) }

Pos(c) == CHOOSE i \in 1..Len(CheckSequence) : CheckSequence[i] = c

\* emnObj.__init__ returned
Constructed == pc \notin {"new", "parse_error"}

\* emnObj.__init__ has just returned, or has just raised
ConstructionEnded == pc \in {CheckSequence[1], "parse_error"}

\* check c returned
Returned(c) ==
    \/ pc = "done"
    \/ pc \in Checks /\ Pos(pc) > Pos(c)
    \/ pc = "raised" /\ Pos(raisedBy) > Pos(c)

\* check c ended: it returned or it raised
Ended(c) == Returned(c) \/ raisedBy = c

\* checkAllErrors ended
AllEnded == pc \in {"done", "raised"}

(* C1: the diagnostics are grouped by check, in the order height, negative *)
(* coordinate, closure, reference designator, round cutout, empty data,    *)
(* arc tangent, library: no diagnostic of an earlier check comes after one *)
(* of a later check, and the missing-units diagnostic of the constructor   *)
(* comes before them all.                                                  *)

\* the rank of the check that writes a message, 0 for the constructor
CheckRank(msg) ==
    CASE msg = "noUnits" -> 0
      [] msg \in {"tooShort", "useKeepout"} -> 1
      [] msg \in {"negShape", "negPart", "negDrill"} -> 2
      [] msg \in {"notClosed", "cutoutNotClosed"} -> 3
      [] msg = "refDesR" -> 4
      [] msg = "circular" -> 5
      [] msg = "noShapes" -> 6
      [] msg = "arc" -> 7
      [] msg \in {"invalidChars", "notInLib", "libSummary"} -> 8

\* C1: no diagnostic of an earlier check comes after one of a later check,
\* and the missing-units diagnostic of the constructor comes before them all
C1_FixedOrder ==
    \A i, j \in 1..Len(errors) :
        i < j => CheckRank(errors[i].msg) <= CheckRank(errors[j].msg)

\* C1, witness: a board with no units, a part in negative space and an open
\* outline, checked to the end: missing-units, then negative-coordinate,
\* then not-closed
C1_Witness ==
    /\ pc = "done"
    /\ \E i, j, k \in 1..Len(errors) :
        /\ i < j /\ j < k
        /\ errors[i].msg = "noUnits"
        /\ errors[j].msg = "negPart"
        /\ errors[k].msg = "notClosed"

----------------------------------------------------------------------------
(* C2: for every shape and every cutout of it with exactly 2 vertices, the *)
(* second of sweep 360, the round-cutout check emits exactly one           *)
(* 'circular' diagnostic for that cutout and the closure check none.       *)

IsRound(sub) == Len(sub) = 2 /\ sub[2][4] = 360 * Scale

\* C2: once the round-cutout check has returned, every round cutout of
\* every shape has exactly one 'circular' diagnostic and no 'not closed' one
C2_RoundCutoutEveryShape ==
    Returned("round") =>
        \A si \in 1..Len(shapes) :
            \A ci \in 2..Len(shapes[si].coordinates) :
                IsRound(shapes[si].coordinates[ci]) =>
                    /\ Cardinality({ k \in 1..Len(errors) :
                            /\ errors[k].msg = "circular"
                            /\ errors[k].shape = si
                            /\ errors[k].sub = ci }) = 1
                    /\ { k \in 1..Len(errors) :
                            /\ errors[k].msg \in {"notClosed", "cutoutNotClosed"}
                            /\ errors[k].shape = si
                            /\ errors[k].sub = ci } = {}

----------------------------------------------------------------------------
(* C5: once the constructor has returned, checkAllErrors runs every check  *)
(* to its end and none raises: no state has a check that raised.           *)

\* C5: no check raises
C5_NoCheckRaises == pc # "raised"

----------------------------------------------------------------------------
(* C7: for each sub-shape (the outline and every cutout of every shape)    *)
(* the closure check emits exactly one 'not closed' diagnostic if the      *)
(* sub-shape has at least 3 vertices and the (x,y) of its first and last   *)
(* vertex differ, or has exactly 2 vertices and the second's sweep is not  *)
(* 360, and none otherwise.                                                *)

NotClosed(sub) ==
    \/ /\ Len(sub) >= 3
       /\ << sub[1][2], sub[1][3] >> # << sub[Len(sub)][2], sub[Len(sub)][3] >>
    \/ /\ Len(sub) = 2
       /\ sub[2][4] # 360 * Scale

ClosureDiagnostics(si, ci) ==
    { k \in 1..Len(errors) :
        /\ errors[k].msg \in {"notClosed", "cutoutNotClosed"}
        /\ errors[k].shape = si
        /\ errors[k].sub = ci }

\* C7: once the closure check has ended, every sub-shape has exactly one
\* 'not closed' diagnostic if it is not closed, and none if it is
C7_ClosureForEverySubShape ==
    Ended("closed") =>
        \A si \in 1..Len(shapes) :
            \A ci \in 1..Len(shapes[si].coordinates) :
                Cardinality(ClosureDiagnostics(si, ci)) =
                    IF NotClosed(shapes[si].coordinates[ci]) THEN 1 ELSE 0

\* the same, of the runs in which the closure check returned
C7_ClosureWhenReturned ==
    Returned("closed") =>
        \A si \in 1..Len(shapes) :
            \A ci \in 1..Len(shapes[si].coordinates) :
                Cardinality(ClosureDiagnostics(si, ci)) =
                    IF NotClosed(shapes[si].coordinates[ci]) THEN 1 ELSE 0

----------------------------------------------------------------------------
(* C9: the height check flags a shape exactly when it is a place outline   *)
(* and units = MM and height <= 0.026, or units = THOU and height <= 1;    *)
(* one summary diagnostic follows the per-shape ones if a shape was        *)
(* flagged, and none otherwise.                                            *)

TooShort(s) ==
    /\ s.sType = ".PLACE_OUTLINE"
    /\ \/ units = "MM" /\ s.height <= 260
       \/ units = "THOU" /\ s.height <= Scale

HeightDiagnostics(si) ==
    { k \in 1..Len(errors) : errors[k].msg = "tooShort" /\ errors[k].shape = si }

HeightSummaries == { k \in 1..Len(errors) : errors[k].msg = "useKeepout" }

HeightRight ==
    /\ \A si \in 1..Len(shapes) :
        Cardinality(HeightDiagnostics(si)) = IF TooShort(shapes[si]) THEN 1 ELSE 0
    /\ Cardinality(HeightSummaries) =
        IF \E si \in 1..Len(shapes) : TooShort(shapes[si]) THEN 1 ELSE 0
    /\ \A k \in HeightSummaries :
        \A si \in 1..Len(shapes) : \A m \in HeightDiagnostics(si) : m < k

\* C9: once the height check has ended, exactly the place outlines at or
\* below the minimum height of the units are flagged, once each, and one
\* summary follows them if there is one
C9_HeightFlagsExactly == Ended("height") => HeightRight

\* the same, of the runs in which the height check returned
C9_HeightWhenReturned == Returned("height") => HeightRight

----------------------------------------------------------------------------
(* C10: with a membership set supplied to checkAllErrors the library check *)
(* runs and appends, for every part, one 'invalid characters' diagnostic   *)
(* if the name has '_' or '^', else one 'not found in parts library' if    *)
(* the upper-cased name is not in the set, else nothing; one summary       *)
(* follows iff a part had invalid characters.  With no set it appends      *)
(* nothing.                                                                *)

RECURSIVE LibExpected(_, _)
LibExpected(i, bad) ==
    IF i > Len(parts) THEN (IF bad THEN <<"libSummary">> ELSE <<>>)
    ELSE LET name    == parts[i].name
             invalid == Contains("_", name) \/ Contains("^", name)
         IN  (IF invalid THEN << <<"invalidChars", name>> >>
              ELSE IF Upper(name) \notin partsLibrary
              THEN << <<"notInLib", name>> >>
              ELSE <<>>)
             \o LibExpected(i + 1, bad \/ invalid)

IsLibDiagnostic(e) == e.msg \in {"invalidChars", "notInLib", "libSummary"}

RECURSIVE LibWritten(_)
LibWritten(k) ==
    IF k > Len(errors) THEN <<>>
    ELSE (IF errors[k].msg = "libSummary" THEN <<"libSummary">>
          ELSE IF IsLibDiagnostic(errors[k])
          THEN << <<errors[k].msg, errors[k].s1>> >>
          ELSE <<>>)
         \o LibWritten(k + 1)

LibRight ==
    LibWritten(1) = IF partsLibrary # {} THEN LibExpected(1, FALSE) ELSE <<>>

\* C10: once checkAllErrors has ended, with a library supplied the library
\* check has run, and the library diagnostics are those of the parts
C10_LibraryCheckRuns ==
    AllEnded => /\ partsLibrary # {} => pc = "done"
                /\ LibRight

\* the same, of the runs in which checkAllErrors returned
C10_LibraryWhenReturned == pc = "done" => LibRight

----------------------------------------------------------------------------
(* C6: the diagnostics are empty right after construction, before any      *)
(* check has run; every entry was appended by a check; the checks leave    *)
(* fileName, units, shapes, parts and drills unchanged.                    *)

\* the header ends before a line names the units
HeaderEndsWithoutUnits(data) ==
    \E i \in 1..Len(data) :
        /\ InLine(".END_HEADER", data[i])
        /\ \A j \in 1..i : ~InLine("THOU", data[j]) /\ ~InLine("MM", data[j])

\* constructed, and no check has run
FreshlyBuilt == pc = CheckSequence[1]

\* C6, as stated: nothing is in the diagnostics before the checks run
C6_EmptyAfterConstruction == FreshlyBuilt => errors = <<>>

\* the diagnostics right after construction: the missing-units entry if the
\* header ended before the units were found, and nothing else
C6_AfterConstruction ==
    /\ FreshlyBuilt =>
        errors = IF HeaderEndsWithoutUnits(emnData) THEN <<NoUnitsMsg>> ELSE <<>>
    /\ \A k \in 1..Len(errors) : errors[k].msg = "noUnits" => k = 1

\* a step of a check appends entries of that check and changes nothing else
C6_CheckStep ==
    pc \in Checks =>
        /\ UNCHANGED <<fileName, units, shapes, parts, drills>>
        /\ Len(errors') >= Len(errors)
        /\ SubSeq(errors', 1, Len(errors)) = errors
        /\ \A k \in (Len(errors) + 1)..Len(errors') :
            CheckRank(errors'[k].msg) = Pos(pc)

\* C6 as amended: right after construction the diagnostics hold at most the
\* missing-units entry; every other entry is appended by a check; the
\* checks leave fileName, units, shapes, parts and drills unchanged
C6_OnlyUnitsBeforeChecks == []C6_AfterConstruction /\ [][C6_CheckStep]_vars

\* C6, witness: constructed, no check has run, and the diagnostics hold the
\* missing-units entry
C6_Witness == FreshlyBuilt /\ errors = <<NoUnitsMsg>>

----------------------------------------------------------------------------
(* C3: a section of each of the seven kinds, from a line with the kind's   *)
(* start marker to a line with its end marker, yields exactly one shape of *)
(* that kind, in file order, and no error.                                 *)

\* the kind of section a line starts or ends, 0 if none
StartKind(line) ==
    IF \E k \in 1..Len(StdStarts) : Len(line) > 0 /\ line[1] = StdStarts[k]
    THEN CHOOSE k \in 1..Len(StdStarts) : line[1] = StdStarts[k] ELSE 0
EndKind(line) ==
    IF \E k \in 1..Len(StdEnds) : Len(line) > 0 /\ line[1] = StdEnds[k]
    THEN CHOOSE k \in 1..Len(StdEnds) : line[1] = StdEnds[k] ELSE 0

\* the kinds of the sections of a file, in file order, each section running
\* from its start marker to its own end marker; <<0>> if the file is not
\* made that way
RECURSIVE SectionKinds(_, _, _, _)
SectionKinds(data, i, open, kinds) ==
    IF i > Len(data) THEN (IF open = 0 THEN kinds ELSE <<0>>)
    ELSE IF StartKind(data[i]) # 0
    THEN (IF open = 0 THEN SectionKinds(data, i + 1, StartKind(data[i]), kinds)
          ELSE <<0>>)
    ELSE IF EndKind(data[i]) # 0
    THEN (IF open = EndKind(data[i])
          THEN SectionKinds(data, i + 1, 0, Append(kinds, open))
          ELSE <<0>>)
    ELSE SectionKinds(data, i + 1, open, kinds)

WellFormedSections(data) == SectionKinds(data, 1, 0, <<>>) # <<0>>

ShapesMatchSections ==
    /\ pc # "parse_error"
    /\ LET kinds == SectionKinds(emnData, 1, 0, <<>>)
       IN  /\ Len(shapes) = Len(kinds)
           /\ \A i \in 1..Len(kinds) : shapes[i].sType = StdStarts[kinds[i]]

\* C3: a file made of sections of the seven kinds, each from its start
\* marker to its end marker, is constructed without error and its shapes
\* are those of the sections, one each, in file order
C3_EverySectionYieldsItsShape ==
    (ConstructionEnded /\ WellFormedSections(emnData)) => ShapesMatchSections

\* the same, of the files with no route keepout section
C3_SectionsButRouteKeepout ==
    ( /\ ConstructionEnded
      /\ WellFormedSections(emnData)
      /\ \A i \in 1..Len(emnData) : StartKind(emnData[i]) # 6 )
        => ShapesMatchSections

----------------------------------------------------------------------------
(* C4: a start marker followed by vertex lines and no end marker before    *)
(* the end of the input raises no error, and the shapes of the board hold  *)
(* a shape built from the vertex records of that span.                     *)

\* the last line of the data with an end marker, 0 if there is none
LastEnd(data) ==
    LET ends == { i \in 1..Len(data) : EndKind(data[i]) # 0 }
    IN  IF ends = {} THEN 0 ELSE Max(ends)

EndLines(data) == Cardinality({ i \in 1..Len(data) : EndKind(data[i]) # 0 })

\* after the last end marker a start marker comes, and vertex lines after it
TrailingSpan(data) ==
    \E i \in (LastEnd(data) + 1)..Len(data) :
        /\ StartKind(data[i]) # 0
        /\ \E j \in (i + 1)..Len(data) : Len(data[j]) = 4

VertexLines(data, n) == Cardinality({ i \in 1..n : Len(data[i]) = 4 })

RECURSIVE VertexCount(_, _)
VertexCount(shps, i) ==
    IF i > Len(shps) THEN 0
    ELSE LET c == shps[i].coordinates
             RECURSIVE Sum(_)
             Sum(j) == IF j > Len(c) THEN 0 ELSE Len(c[j]) + Sum(j + 1)
         IN  Sum(1) + VertexCount(shps, i + 1)

\* C4, as stated: construction raises nothing and the unterminated span
\* yields a shape beyond those of the end markers
C4_UnterminatedSpanYieldsShape ==
    (ConstructionEnded /\ TrailingSpan(emnData)) =>
        /\ pc # "parse_error"
        /\ Len(shapes) > EndLines(emnData)

\* C4 as amended: the span raises no error of its own and yields no shape;
\* the shapes are those of the end markers before it, and its vertex
\* records are in none of them
C4_UnterminatedSpanIsDropped ==
    (ConstructionEnded /\ TrailingSpan(emnData)) =>
        /\ pc = "parse_error" =>
            ~getShapes(SubSeq(emnData, 1, LastEnd(emnData))).ok
        /\ pc # "parse_error" =>
            /\ Len(shapes) = EndLines(emnData)
            /\ VertexCount(shapes, 1) <= VertexLines(emnData, LastEnd(emnData))

\* C4, witness: a file constructed, with a section closed by its end marker
\* and then a start marker and vertex lines up to the end of the data
C4_Witness ==
    /\ pc = CheckSequence[1]
    /\ TrailingSpan(emnData)
    /\ EndLines(emnData) > 0
    /\ Len(shapes) = EndLines(emnData)

----------------------------------------------------------------------------
(* C8: the arc-tangent check emits nothing for a sub-shape whose vertices  *)
(* all have sweep 0; it emits the 'Infinitesimal arc intersection'         *)
(* diagnostic, at the coordinates of the junction, when two arcs of 180    *)
(* degrees meet at a junction with their tangents in exactly opposite      *)
(* directions; it emits none when the two segments meet at a right angle.  *)
(*                                                                         *)
(* The segment that ends at a vertex carries its sweep on that vertex.     *)
(* Travelling along the sub-shape, the segment from p to q arrives at q in *)
(* the direction of the chord turned by half its sweep, and leaves p in    *)
(* the direction of the chord turned back by half its sweep.               *)

\* the sweep of the segment that ends at vertex v, in 1/1000 degree
Sweep(v) == (v[4] * 1000) \div Scale

\* the direction of the chord from p to q, in [0, 360000)
Dir(p, q) == (Atan2(q[3] - p[3], q[2] - p[2]) + 360000) % 360000

ArrivalTangent(p, q) == Dir(p, q) + Sweep(q) \div 2
DepartureTangent(p, q) == Dir(p, q) - Sweep(q) \div 2

\* the angle from the tangent arriving at q from p to the tangent leaving
\* q for r, in [0, 360000)
TangentTurn(p, q, r) == (DepartureTangent(q, r) - ArrivalTangent(p, q)) % 360000

SamePoint(p, q) == p[2] = q[2] /\ p[3] = q[3]

\* two arcs of 180 degrees, from p to q and from q to r, whose tangents at
\* q point in opposite directions
OppositeArcs(p, q, r) ==
    /\ ~SamePoint(p, q) /\ ~SamePoint(q, r)
    /\ Sweep(q) = 180000 /\ Sweep(r) = 180000
    /\ TangentTurn(p, q, r) = 180000

\* two segments, from p to q and from q to r, that meet at a right angle
RightAngle(p, q, r) ==
    /\ ~SamePoint(p, q) /\ ~SamePoint(q, r)
    /\ TangentTurn(p, q, r) \in {90000, 270000}

ArcDiagnostics(si, ci) ==
    { k \in 1..Len(errors) :
        errors[k].msg = "arc" /\ errors[k].shape = si /\ errors[k].sub = ci }

\* the diagnostics at vertex vi of a sub-shape, with its coordinates
ArcDiagnosticsAt(si, ci, vi) ==
    { k \in ArcDiagnostics(si, ci) :
        /\ errors[k].vtx = vi
        /\ errors[k].x = Fmt2(shapes[si].coordinates[ci][vi][2])
        /\ errors[k].y = Fmt2(shapes[si].coordinates[ci][vi][3]) }

SubShapes ==
    UNION { { <<si, ci>> : ci \in 1..Len(shapes[si].coordinates) } :
            si \in 1..Len(shapes) }

\* a sub-shape that ends where it starts
Closed(sub) == Len(sub) >= 2 /\ SamePoint(sub[1], sub[Len(sub)])

\* the junctions of a sub-shape: every vertex with a segment into it and a
\* segment out of it; in a closed sub-shape the last vertex is one, the
\* segment out of it being the one out of the first vertex
Junctions(sub) ==
    { k \in 2..Len(sub) : k < Len(sub) \/ (Closed(sub) /\ Len(sub) >= 3) }

Before(sub, k) == sub[k - 1]
Behind(sub, k) == IF k = Len(sub) THEN sub[2] ELSE sub[k + 1]

C8_Straight ==
    \A sc \in SubShapes :
        LET sub == shapes[sc[1]].coordinates[sc[2]]
        IN  (\A k \in 1..Len(sub) : sub[k][4] = 0)
                => ArcDiagnostics(sc[1], sc[2]) = {}

\* at the junctions of the sub-shapes that satisfy Scope
C8_Junctions(Scope(_)) ==
    \A sc \in SubShapes :
        LET sub == shapes[sc[1]].coordinates[sc[2]]
        IN  Scope(sub) =>
              \A k \in Junctions(sub) :
                /\ OppositeArcs(Before(sub, k), sub[k], Behind(sub, k))
                     => ArcDiagnosticsAt(sc[1], sc[2], k) # {}
                /\ RightAngle(Before(sub, k), sub[k], Behind(sub, k))
                     => { e \in ArcDiagnostics(sc[1], sc[2]) : errors[e].vtx = k } = {}

AnySubShape(sub) == TRUE
ClosedOfFour(sub) == Closed(sub) /\ Len(sub) >= 4

\* C8, as stated, of every sub-shape: nothing for a sub-shape of sweeps 0, a
\* diagnostic at every junction of two opposite arcs of 180 degrees, none at
\* a right angle
C8_ArcTangentAnySubShape ==
    Returned("arc") => C8_Straight /\ C8_Junctions(AnySubShape)

\* C8 as amended: the junctions are those of the closed sub-shapes of at
\* least 4 vertices
C8_ArcTangentClosedSubShape ==
    Returned("arc") => C8_Straight /\ C8_Junctions(ClosedOfFour)

\* C8, witness: two arcs of 180 degrees meet with opposite tangents at a
\* junction of a closed sub-shape of at least 4 vertices, two segments of it
\* meet at a right angle, and the check has reported the first junction
C8_Witness ==
    /\ Returned("arc")
    /\ \E sc \in SubShapes :
        LET sub == shapes[sc[1]].coordinates[sc[2]]
        IN  /\ ClosedOfFour(sub)
            /\ \E k \in Junctions(sub) :
                /\ OppositeArcs(Before(sub, k), sub[k], Behind(sub, k))
                /\ ArcDiagnosticsAt(sc[1], sc[2], k) # {}
            /\ \E k \in Junctions(sub) :
                RightAngle(Before(sub, k), sub[k], Behind(sub, k))

----------------------------------------------------------------------------
(* C11: for every shape section the sub-shapes of its shape are the maximal *)
(* runs of equal loop index among the vertex records of the section, in     *)
(* file order, the first run the outline and the others the cutouts: every  *)
(* sub-shape is non-empty, its vertices share one loop index, adjacent      *)
(* sub-shapes differ in loop index, and together they are the vertex        *)
(* records in file order, also when the first loop index is not 0.          *)

\* the line of the n-th end marker of the data, 0 for n = 0
NthEnd(data, n) ==
    IF n = 0 THEN 0
    ELSE CHOOSE i \in 1..Len(data) :
            /\ EndKind(data[i]) # 0
            /\ Cardinality({ j \in 1..i : EndKind(data[j]) # 0 }) = n

\* the vertex records of lines from..to of the data, in file order
RECURSIVE VertexRecords(_, _, _)
VertexRecords(data, from, to) ==
    IF from > to THEN <<>>
    ELSE (IF Len(data[from]) = 4
          THEN << << ParseFloat(data[from][1]), ParseFloat(data[from][2]),
                     ParseFloat(data[from][3]), ParseFloat(data[from][4]) >> >>
          ELSE <<>>)
         \o VertexRecords(data, from + 1, to)

\* the vertex records of the n-th section
SectionVertices(data, n) ==
    VertexRecords(data, NthEnd(data, n - 1) + 1, NthEnd(data, n))

\* the maximal runs of equal loop index of vertex records vs, from the i-th on
RECURSIVE Runs(_, _, _)
Runs(vs, i, runs) ==
    IF i > Len(vs) THEN runs
    ELSE IF runs # <<>> /\ runs[Len(runs)][1][1] = vs[i][1]
    THEN Runs(vs, i + 1,
              [runs EXCEPT ![Len(runs)] = Append(runs[Len(runs)], vs[i])])
    ELSE Runs(vs, i + 1, Append(runs, <<vs[i]>>))

\* the sub-shapes of shape si are the runs of its section
SubShapesAreRuns(si) ==
    LET runs == Runs(SectionVertices(emnData, si), 1, <<>>)
        s    == shapes[si]
    IN  /\ s.coordinates = runs
        /\ \A ci \in 1..Len(s.coordinates) : s.coordinates[ci] # <<>>
        /\ runs # <<>> => s.outline = runs[1] /\ s.cutouts = Tail(runs)

\* C11: once the board is constructed, the sub-shapes of every shape are the
\* runs of equal loop index of its section, none empty, the first the
\* outline and the others the cutouts
C11_OneSubShapePerRun ==
    FreshlyBuilt =>
        /\ Len(shapes) = EndLines(emnData)
        /\ \A si \in 1..Len(shapes) : SubShapesAreRuns(si)

\* the same, of the sections whose first vertex record has loop index 0
C11_RunsWhenOutlineFirst ==
    FreshlyBuilt =>
        /\ Len(shapes) = EndLines(emnData)
        /\ \A si \in 1..Len(shapes) :
            LET vs == SectionVertices(emnData, si)
            IN  (vs # <<>> /\ vs[1][1] = 0) => SubShapesAreRuns(si)

----------------------------------------------------------------------------
(* C12: every part is assembled from two consecutive lines that both lie    *)
(* strictly between a placement start marker and the next placement end     *)
(* marker; a span with an odd number of record lines drops its last line    *)
(* without an error, and that line is never paired with a line of a later   *)
(* span.                                                                    *)

\* the pairs of consecutive lines of the placement spans of the data, from
\* line i on: inside tells whether line i follows a start marker with no end
\* marker between, held the line kept as the first of a pair, 0 if none.
\* At an end marker the line held is dropped.
RECURSIVE SpanPairs(_, _, _, _, _)
SpanPairs(data, i, inside, held, pairs) ==
    IF i > Len(data) THEN pairs
    ELSE IF Len(data[i]) > 0 /\ data[i][1] = ".END_PLACEMENT"
    THEN SpanPairs(data, i + 1, FALSE, 0, pairs)
    ELSE IF Len(data[i]) > 0 /\ data[i][1] = ".PLACEMENT"
    THEN SpanPairs(data, i + 1, TRUE, 0, pairs)
    ELSE IF ~inside THEN SpanPairs(data, i + 1, FALSE, 0, pairs)
    ELSE IF held = 0 THEN SpanPairs(data, i + 1, TRUE, i, pairs)
    ELSE SpanPairs(data, i + 1, TRUE, 0, Append(pairs, <<held, i>>))

PlacementPairs(data) == SpanPairs(data, 1, FALSE, 0, <<>>)

\* the numbers of record lines of the placement spans, in file order
RECURSIVE SpanSizes(_, _, _, _)
SpanSizes(data, i, inside, sizes) ==
    IF i > Len(data) THEN sizes
    ELSE IF Len(data[i]) > 0 /\ data[i][1] = ".END_PLACEMENT"
    THEN SpanSizes(data, i + 1, FALSE, sizes)
    ELSE IF Len(data[i]) > 0 /\ data[i][1] = ".PLACEMENT"
    THEN SpanSizes(data, i + 1, TRUE, Append(sizes, 0))
    ELSE IF ~inside THEN SpanSizes(data, i + 1, FALSE, sizes)
    ELSE SpanSizes(data, i + 1, TRUE,
                   [sizes EXCEPT ![Len(sizes)] = sizes[Len(sizes)] + 1])

PlacementSizes(data) == SpanSizes(data, 1, FALSE, <<>>)

\* every pair of the spans makes a part
PairsMakeParts(data) ==
    \A k \in 1..Len(PlacementPairs(data)) :
        PartOk(<< data[PlacementPairs(data)[k][1]],
                  data[PlacementPairs(data)[k][2]] >>)

\* the parts are those of the pairs of the spans, in file order
PartsAreSpanPairs ==
    /\ pc # "parse_error"
    /\ parts = [ k \in 1..Len(PlacementPairs(emnData)) |->
                   part(<< emnData[PlacementPairs(emnData)[k][1]],
                           emnData[PlacementPairs(emnData)[k][2]] >>) ]

\* C12: when every pair of consecutive lines of every placement span makes a
\* part, the board is constructed and its parts are exactly those pairs: the
\* odd last line of a span is dropped and pairs with no line of a later span
C12_PartsPairWithinSpan ==
    (ConstructionEnded /\ PairsMakeParts(emnData)) => PartsAreSpanPairs

\* the same, of the files in which every span but the last has an even
\* number of record lines
C12_PairsWhenSpansEven ==
    ( /\ ConstructionEnded
      /\ PairsMakeParts(emnData)
      /\ \A k \in 1..(Len(PlacementSizes(emnData)) - 1) :
            PlacementSizes(emnData)[k] % 2 = 0 )
        => PartsAreSpanPairs

----------------------------------------------------------------------------
(* C13: in the arc-tangent check, for each index i of a sub-shape without  *)
(* its first vertex (indices from 0, circular, and only when more than 2   *)
(* vertices remain), phi0 is the sweep stored on vertex i-1 and phi1 the   *)
(* sweep stored on vertex i; the evaluation is skipped exactly when both   *)
(* are 0; alpha0 and alpha1 are the directions from vertex i to vertices   *)
(* i-1 and i+1; a diagnostic of the evaluation reports the coordinates of  *)
(* vertex i.                                                               *)

\* the vertex at index k of s, indices from 0 and circular
Circular(s, k) == s[(k % Len(s)) + 1]

\* the evaluation at index i emits a diagnostic, the vertex whose directions
\* to its neighbours are taken being the one at index j
Emits(s, i, j) ==
    LET phi0   == Sweep(Circular(s, i - 1))
        phi1   == Sweep(Circular(s, i))
        alpha0 == Dir(Circular(s, j), Circular(s, j - 1))
        alpha1 == Dir(Circular(s, j), Circular(s, j + 1))
        beta0  == alpha0 + phi0 \div 2
        beta1  == alpha1 - phi1 \div 2
        delta  == Abs(beta1 - beta0) % 360000
    IN  /\ phi0 # 0 \/ phi1 # 0
        /\ IsClose(delta, 0) \/ IsClose(delta, 360000)

\* the diagnostics of a sub-shape, as <<vertex of the sub-shape, x, y>> in
\* the order of the evaluations from index i on, the vertex of evaluation i
\* being the one at index i + offset
RECURSIVE Evaluations(_, _, _)
Evaluations(s, i, offset) ==
    IF Len(s) <= 2 \/ i >= Len(s) THEN <<>>
    ELSE (IF Emits(s, i, i + offset)
          THEN << << ((i + offset) % Len(s)) + 2,
                     Fmt2(Circular(s, i + offset)[2]),
                     Fmt2(Circular(s, i + offset)[3]) >> >>
          ELSE <<>>)
         \o Evaluations(s, i + 1, offset)

\* the arc diagnostics written for sub-shape ci of shape si, from entry k on
RECURSIVE ArcWritten(_, _, _)
ArcWritten(si, ci, k) ==
    IF k > Len(errors) THEN <<>>
    ELSE (IF k \in ArcDiagnostics(si, ci)
          THEN << << errors[k].vtx, errors[k].x, errors[k].y >> >>
          ELSE <<>>)
         \o ArcWritten(si, ci, k + 1)

\* C13, as stated: once the arc-tangent check has returned, the diagnostics
\* of every sub-shape are those of the evaluations whose vertex is vertex i
C13_EvaluationAtVertexI ==
    Returned("arc") =>
        \A sc \in SubShapes :
            ArcWritten(sc[1], sc[2], 1) =
                Evaluations(Tail(shapes[sc[1]].coordinates[sc[2]]), 0, 0)

\* C13 as amended: once the arc-tangent check has returned, the diagnostics
\* of every sub-shape are those of the evaluations whose vertex is vertex
\* i-1: phi0 and phi1 are the sweeps stored on vertices i-1 and i, alpha0 and
\* alpha1 the directions from vertex i-1 to vertices i-2 and i, and the
\* coordinates reported are those of vertex i-1
C13_EvaluationAtVertexBefore ==
    Returned("arc") =>
        \A sc \in SubShapes :
            ArcWritten(sc[1], sc[2], 1) =
                Evaluations(Tail(shapes[sc[1]].coordinates[sc[2]]), 0, 0 - 1)

\* C13, witness: the check has returned and has written a diagnostic for a
\* sub-shape in which an evaluation has an arc and another has none, and for
\* which the two readings of the vertex give different diagnostics
C13_Witness ==
    /\ Returned("arc")
    /\ \E sc \in SubShapes :
        LET s == Tail(shapes[sc[1]].coordinates[sc[2]])
        IN  /\ Len(s) > 2
            /\ ArcWritten(sc[1], sc[2], 1) # <<>>
            /\ Evaluations(s, 0, 0) # Evaluations(s, 0, 0 - 1)
            /\ \E i \in 0..(Len(s) - 1) :
                Circular(s, i - 1)[4] = 0 /\ Circular(s, i)[4] = 0

====
